---- MODULE Spec2Model ----
(***************************************************************************)
(* pdu (src/main.rs): disk usage of the immediate children of the working  *)
(* directory, a grand total, and a size-sorted, human-readable listing.    *)
(*                                                                         *)
(* Two specifications share this module:                                   *)
(*   Spec     main -> get_data_from_directory -> print_data, run on a      *)
(*            bounded family of file systems;                              *)
(*   SpecFmt  PathData::get_human_readable_size, run on sampled u64 sizes. *)
(*                                                                         *)
(* A u64 is kept at its full width as 7 little-endian base-1024 digits     *)
(* (2^64 = 16 * 1024^6, so the top digit is below 16): TLC's own integers  *)
(* are 32 bits wide.  An f64 in the formatter is mant / 1024^exp with mant *)
(* holding at most 53 significant bits.                                    *)
(***************************************************************************)
EXTENDS Integers, Sequences, FiniteSets, TLC

VARIABLES
    fs,          \* the file system under the working directory (never written)
    pc,          \* position of main
    queue,       \* entries the read_dir iterator has still to yield
    data,        \* Vec<PathData> built by get_data_from_directory
    total_size,  \* its running total
    ret,         \* "none", or the variant get_data_from_directory returned
    error,       \* the io::Error being propagated, "none" without one
    stdout,      \* rows printed: << icon, name, size text >>
    exit_code,   \* -1 while running
    f_pc,        \* position inside get_human_readable_size
    f_size,      \* self.size
    f_out,       \* out
    f_iter,      \* 1-based index of the unit the loop is at
    f_suffix,    \* suffix
    f_text       \* the String returned

vars == << fs, pc, queue, data, total_size, ret, error, stdout, exit_code,
           f_pc, f_size, f_out, f_iter, f_suffix, f_text >>

mainVars == << fs, pc, queue, data, total_size, ret, error, stdout, exit_code >>

fmtVars == << f_pc, f_size, f_out, f_iter, f_suffix, f_text >>

(* ------------------------------ u64 ----------------------------------- *)

\* Radix of the digit representation; also the divisor of the unit ladder.
Base == 1024

\* Number of base-1024 digits of a u64 (PathData.size).
Limbs == 7

\* 2^64 = TopRadix * Base^(Limbs-1).
TopRadix == 16

\* Significant bits of an f64.
F64Bits == 53

RECURSIVE Pow2(_)
Pow2(e) == IF e = 0 THEN 1 ELSE 2 * Pow2(e - 1)

\* A small natural (below 2^31) as a u64.
U64(n) ==
    << n % Base, (n \div Base) % Base, (n \div (Base * Base)) % Base,
       n \div (Base * Base * Base), 0, 0, 0 >>

Zero64 == U64(0)

\* Digit j of a digit sequence, 0 beyond its end.
Digit(d, j) == IF j \in 1..Len(d) THEN d[j] ELSE 0

\* Ripple-carry sum of two digit sequences from digit j on, carry c coming in.
\* The result has Limbs+1 entries: the last one is the carry out of the u64.
RECURSIVE AddFrom(_, _, _, _)
AddFrom(a, b, j, c) ==
    IF j > Limbs THEN << c >>
    ELSE LET r == IF j = Limbs THEN TopRadix ELSE Base
             t == a[j] + b[j] + c
         IN  << t % r >> \o AddFrom(a, b, j + 1, t \div r)

\* a + b on u64 as the release build computes it (wrapping).
WrappingAdd(a, b) == SubSeq(AddFrom(a, b, 1, 0), 1, Limbs)

\* Whether a + b leaves the u64 range.
Overflows(a, b) == AddFrom(a, b, 1, 0)[Limbs + 1] # 0

\* a < b on u64, compared from the most significant digit down.
RECURSIVE LessFrom(_, _, _)
LessFrom(a, b, j) ==
    IF j = 0 THEN FALSE
    ELSE IF a[j] # b[j] THEN a[j] < b[j]
    ELSE LessFrom(a, b, j - 1)

Less64(a, b) == LessFrom(a, b, Limbs)

Leq64(a, b) == ~Less64(b, a)

(* --------------------- get_human_readable_size ------------------------- *)

\* Mutant of Units: the ladder with the EiB rung left out.
UnitsMissingEiB == << "B", "KiB", "MiB", "GiB", "TiB", "PiB", "ZiB" >>

\* The unit ladder the loop iterates over, and the suffix it starts from.
Units == << "B", "KiB", "MiB", "GiB", "TiB", "PiB", "EiB", "ZiB" >>

FallbackUnit == "YiB"

RECURSIVE BitLen(_)
BitLen(d) == IF d = 0 THEN 0 ELSE 1 + BitLen(d \div 2)

\* Index of the most significant non-zero digit, 0 for the value 0.
RECURSIVE TopDigit(_, _)
TopDigit(d, j) == IF j = 0 THEN 0 ELSE IF d[j] # 0 THEN j ELSE TopDigit(d, j - 1)

\* Number of significant bits of a u64.
BitLen64(d) ==
    LET t == TopDigit(d, Limbs)
    IN  IF t = 0 THEN 0 ELSE 10 * (t - 1) + BitLen(d[t])

\* Adds carry c into the digits from position j on; the top digit may reach
\* TopRadix, which is the value 2^64 (representable as an f64).
RECURSIVE CarryFrom(_, _, _)
CarryFrom(d, j, c) ==
    IF j > Limbs THEN << >>
    ELSE IF j = Limbs THEN << d[j] + c >>
    ELSE << (d[j] + c) % Base >> \o CarryFrom(d, j + 1, (d[j] + c) \div Base)

\* `self.size as f64`: exact up to 53 significant bits, otherwise the low
\* bits are dropped with round-to-nearest, ties to even.
AsF64(size) ==
    LET len == BitLen64(size)
    IN  IF len <= F64Bits THEN size
        ELSE LET s     == len - F64Bits
                 p     == Pow2(s)
                 low   == size[1] + Base * size[2]
                 rem   == low % p
                 odd   == (low \div p) % 2 = 1
                 up    == rem > p \div 2 \/ (rem = p \div 2 /\ odd)
                 low2  == low - rem + (IF up THEN p ELSE 0)
             IN  << low2 % Base, (low2 \div Base) % Base >>
                 \o CarryFrom(size, 3, low2 \div (Base * Base))

\* Mutant of Below1024: the comparison written `out <= 1024.0`.
Below1024Inclusive(out) ==
    \/ \A j \in (out.exp + 2)..Limbs : out.mant[j] = 0
    \/ \A j \in 1..Limbs : out.mant[j] = (IF j = out.exp + 2 THEN 1 ELSE 0)

\* `out < 1024.0` for out = mant / 1024^exp.
Below1024(out) == \A j \in (out.exp + 2)..Limbs : out.mant[j] = 0

\* `out /= 1024.0`: a division by a power of two moves the exponent only.
Div1024(out) == [out EXCEPT !.exp = @ + 1]

\* 1000 * (fraction of out), by long multiplication from the lowest digit:
\* the result is << integer part, fraction digits (most significant first) >>.
RECURSIVE MulFrac(_, _, _, _)
MulFrac(out, j, c, acc) ==
    IF j > out.exp THEN << c, acc >>
    ELSE LET t == Digit(out.mant, j) * 1000 + c
         IN  MulFrac(out, j + 1, t \div Base, << t % Base >> \o acc)

\* Mutant of Fixed3: the digits after the third decimal cut off.
Fixed3Truncating(out) ==
    Digit(out.mant, out.exp + 1) * 1000 + MulFrac(out, 1, 0, << >>)[1]

\* `{:.3}`: out in thousandths, rounded to the nearest, ties to even.
Fixed3(out) ==
    LET whole == Digit(out.mant, out.exp + 1)
        mf    == MulFrac(out, 1, 0, << >>)
        floor == whole * 1000 + mf[1]
        frac  == mf[2]
        first == IF frac = << >> THEN 0 ELSE frac[1]
        rest  == \E j \in 2..Len(frac) : frac[j] # 0
        up    == first > Base \div 2
                 \/ (first = Base \div 2 /\ (rest \/ floor % 2 = 1))
    IN  IF up THEN floor + 1 ELSE floor

\* Three decimals, zero padded.
Pad3(n) ==
    IF n < 10 THEN "00" \o ToString(n)
    ELSE IF n < 100 THEN "0" \o ToString(n)
    ELSE ToString(n)

\* format!("{:.3} {}", out, suffix)
FormatOut(out, suffix) ==
    LET m == Fixed3(out)
    IN  ToString(m \div 1000) \o "." \o Pad3(m % 1000) \o " " \o suffix

\* The `for unit in ...` loop from its i-th iteration on: the f64 it ends
\* with, the suffix, and the number of divisions made.
RECURSIVE UnitLoop(_, _)
UnitLoop(out, i) ==
    IF i > Len(Units) THEN [out |-> out, suffix |-> FallbackUnit]
    ELSE IF Below1024(out) THEN [out |-> out, suffix |-> Units[i]]
    ELSE UnitLoop(Div1024(out), i + 1)

get_human_readable_size(size) ==
    LET r == UnitLoop([mant |-> AsF64(size), exp |-> 0], 1)
    IN  FormatOut(r.out, r.suffix)

(* ----------------- get_human_readable_size, step by step --------------- *)

\* Digits the sampled sizes are built from: the ends of a digit's range, the
\* half-way points of the roundings (64, 512) and the 1000 of the unit test.
LowDigits == {0, 1, 64, 512, 1000, 1023}

TopDigits == {0, 1, 15}

SampleSizes ==
    { << d[1], d[2], d[3], d[4], d[5], d[6], t >> :
        d \in [1..(Limbs - 1) -> LowDigits], t \in TopDigits }

FmtIdle ==
    /\ f_pc = "idle"
    /\ f_size = Zero64
    /\ f_out = [mant |-> Zero64, exp |-> 0]
    /\ f_iter = 0
    /\ f_suffix = ""
    /\ f_text = ""

\* let mut out = self.size as f64; let mut suffix = "YiB";
FmtEnter ==
    /\ f_pc = "enter"
    /\ f_out' = [mant |-> AsF64(f_size), exp |-> 0]
    /\ f_suffix' = FallbackUnit
    /\ f_iter' = 1
    /\ f_pc' = "loop"
    /\ UNCHANGED << f_size, f_text >>
    /\ UNCHANGED mainVars

\* One iteration of `for unit in vec![...]`, or the loop running out.
FmtLoop ==
    /\ f_pc = "loop"
    /\ IF f_iter > Len(Units)
       THEN /\ f_pc' = "format"
            /\ UNCHANGED << f_out, f_iter, f_suffix >>
       ELSE IF Below1024(f_out)
       THEN /\ f_suffix' = Units[f_iter]
            /\ f_pc' = "format"
            /\ UNCHANGED << f_out, f_iter >>
       ELSE /\ f_out' = Div1024(f_out)
            /\ f_iter' = f_iter + 1
            /\ UNCHANGED << f_pc, f_suffix >>
    /\ UNCHANGED << f_size, f_text >>
    /\ UNCHANGED mainVars

\* return format!("{:.3} {}", out, suffix);
FmtReturn ==
    /\ f_pc = "format"
    /\ f_text' = FormatOut(f_out, f_suffix)
    /\ f_pc' = "done"
    /\ UNCHANGED << f_size, f_out, f_iter, f_suffix >>
    /\ UNCHANGED mainVars

(* --------------------------- the file system --------------------------- *)

\* Most entries below the working directory (node 0) in a sampled file system.
MaxNodes == 3

\* Most entries of one file system on which an I/O operation fails.
MaxFaults == 1

\* File types as lstat reports them: "other" is a symlink or a special file,
\* for which both is_dir() and is_file() are false.
Kinds == {"dir", "file", "other"}

\* Byte lengths sampled for regular files: an empty file, a small one and the
\* largest length a file can have (2^63 - 1).
MaxFileLen == << 1023, 1023, 1023, 1023, 1023, 1023, 7 >>

FileLens == {U64(0), U64(500), MaxFileLen}

\* metadata().len() of a directory and of a symlink.
DirLen == U64(4096)

OtherLen == U64(7)

\* What fails on an entry: "entry" - the directory iterator yields Err in its
\* place; "stat" - metadata() on it fails; "open" - read_dir on it fails.
FaultsOf(kind) == IF kind = "dir" THEN {"entry", "stat", "open"} ELSE {"entry", "stat"}

\* Node 2 carries the name of the synthetic row.
NameOf(i) == IF i = 2 THEN "Total" ELSE "n" \o ToString(i)

Nodes == DOMAIN fs

Children(d) == {c \in Nodes \ {0} : fs[c].parent = d}

\* The elements of a set of naturals in ascending order: entries are numbered
\* in the order the directory iterators yield them.
RECURSIVE Ascending(_)
Ascending(S) ==
    IF S = {} THEN << >>
    ELSE LET m == CHOOSE x \in S : \A y \in S : x <= y
         IN  << m >> \o Ascending(S \ {m})

\* The sampled trees of n entries: every parent is an earlier directory.
Parents(n, kind) ==
    { p \in [1..n -> 0..MaxNodes] :
        \A i \in 1..n : p[i] < i /\ (p[i] # 0 => kind[p[i]] = "dir") }

Lens(n, kind) ==
    { l \in [1..n -> FileLens \cup {DirLen, OtherLen}] :
        \A i \in 1..n :
            CASE kind[i] = "file" -> l[i] \in FileLens
              [] kind[i] = "dir"  -> l[i] = DirLen
              [] OTHER            -> l[i] = OtherLen }

\* Fault assignments with at most m faulty entries.
RECURSIVE FaultMaps(_, _, _)
FaultMaps(n, kind, m) ==
    IF m = 0 THEN { [i \in 0..n |-> "none"] }
    ELSE LET prev == FaultMaps(n, kind, m - 1)
         IN  prev \cup
             UNION { { [g EXCEPT ![i] = k] :
                         k \in IF i = 0 THEN {"open"} ELSE FaultsOf(kind[i]) } :
                     g \in prev, i \in 0..n }

\* Sum of a sequence of u64 with the carries kept: << sum, overflowed >>.
RECURSIVE SumChecked(_, _)
SumChecked(seq, i) ==
    IF i > Len(seq) THEN << Zero64, FALSE >>
    ELSE LET r == SumChecked(seq, i + 1)
         IN  << WrappingAdd(seq[i], r[1]), r[2] \/ Overflows(seq[i], r[1]) >>

\* The source assumes that the total size of a file or directory fits a u64
\* (header comment of main.rs): the sampled file systems are those whose file
\* lengths add up below 2^64.
FitsU64(n, kind, len) ==
    LET files == SelectSeq([i \in 1..n |-> i], LAMBDA i : kind[i] = "file")
    IN  ~SumChecked([j \in 1..Len(files) |-> len[files[j]]], 1)[2]

(* ----------------------- get_size_of_directory ------------------------- *)

\* The items WalkDir yields from node n down, in pre-order: Ok(entry) as
\* [ok |-> TRUE], Err as [ok |-> FALSE].  A directory that cannot be opened
\* yields an Err in place of its contents; the walk goes on after an Err.
RECURSIVE WalkFrom(_)
RECURSIVE WalkAll(_, _)
WalkFrom(n) ==
    IF fs[n].fault = "entry" THEN << [ok |-> FALSE, node |-> n] >>
    ELSE << [ok |-> TRUE, node |-> n] >>
         \o (IF fs[n].kind # "dir" THEN << >>
             ELSE IF fs[n].fault = "open" THEN << [ok |-> FALSE, node |-> n] >>
             ELSE WalkAll(Ascending(Children(n)), 1))

WalkAll(cs, i) ==
    IF i > Len(cs) THEN << >> ELSE WalkFrom(cs[i]) \o WalkAll(cs, i + 1)

\* WalkDir::new(root).into_iter(): the root itself is stat'ed first.
WalkDir(root) ==
    IF fs[root].fault = "stat" THEN << [ok |-> FALSE, node |-> root] >>
    ELSE WalkFrom(root)

\* .sum() over u64
RECURSIVE SumU64(_, _)
SumU64(seq, i) ==
    IF i > Len(seq) THEN Zero64 ELSE WrappingAdd(seq[i], SumU64(seq, i + 1))

\* Mutant of IsFileFilter: the filter left out, so every length is summed.
IsFileFilterMissing(n) == TRUE

\* .filter(|m| m.is_file())
IsFileFilter(n) == fs[n].kind = "file"

get_size_of_directory(root) ==
    LET oks   == SelectSeq(WalkDir(root), LAMBDA f : f.ok)
        metas == SelectSeq(oks, LAMBDA f : fs[f.node].fault # "stat")
        files == SelectSeq(metas, LAMBDA f : IsFileFilter(f.node))
        lens  == [j \in 1..Len(files) |-> fs[files[j].node].len]
    IN  SumU64(lens, 1)

(* ---------------------- get_data_from_directory ------------------------ *)

DirIcon == "U+F115 "

FileIcon == "U+F15B "

TotalName == "Total"

TotalIcon == ""

PathData(size, name, icon) == [size |-> size, name |-> name, icon |-> icon]

MainIdle ==
    /\ pc = "idle"
    /\ queue = << >>
    /\ data = << >>
    /\ total_size = Zero64
    /\ ret = "none"
    /\ error = "none"
    /\ stdout = << >>
    /\ exit_code = -1

\* let cwd = current_dir()?;
CurrentDirOk ==
    /\ pc = "main"
    /\ pc' = "read_dir"
    /\ UNCHANGED << fs, queue, data, total_size, ret, error, stdout, exit_code >>
    /\ UNCHANGED fmtVars

CurrentDirErr ==
    /\ pc = "main"
    /\ error' = "current_dir"
    /\ exit_code' = 1
    /\ pc' = "exit"
    /\ UNCHANGED << fs, queue, data, total_size, ret, stdout >>
    /\ UNCHANGED fmtVars

\* dir.read_dir()? succeeding: data and total_size start empty.
ReadDirOk ==
    /\ pc = "read_dir"
    /\ fs[0].fault # "open"
    /\ queue' = Ascending(Children(0))
    /\ data' = << >>
    /\ total_size' = Zero64
    /\ pc' = "iter"
    /\ UNCHANGED << fs, ret, error, stdout, exit_code >>
    /\ UNCHANGED fmtVars

\* dir.read_dir()? failing: the function returns the error.
ReadDirErr ==
    /\ pc = "read_dir"
    /\ fs[0].fault = "open"
    /\ ret' = "Err"
    /\ error' = "read_dir"
    /\ pc' = "returned"
    /\ UNCHANGED << fs, queue, data, total_size, stdout, exit_code >>
    /\ UNCHANGED fmtVars

\* .filter_map(|f| f.ok()) dropping an Err the iterator yields.
SkipEntryErr ==
    /\ pc = "iter"
    /\ queue # << >>
    /\ fs[Head(queue)].fault = "entry"
    /\ queue' = Tail(queue)
    /\ UNCHANGED << fs, pc, data, total_size, ret, error, stdout, exit_code >>
    /\ UNCHANGED fmtVars

\* file.metadata()? failing on the entry: the function returns the error.
MetadataErr ==
    /\ pc = "iter"
    /\ queue # << >>
    /\ fs[Head(queue)].fault = "stat"
    /\ ret' = "Err"
    /\ error' = "metadata"
    /\ pc' = "returned"
    /\ UNCHANGED << fs, queue, data, total_size, stdout, exit_code >>
    /\ UNCHANGED fmtVars

\* Mutant of VisitDir: the directory's own metadata length taken as its size.
VisitDirOwnLen ==
    /\ pc = "iter"
    /\ queue # << >>
    /\ fs[Head(queue)].fault \notin {"entry", "stat"}
    /\ fs[Head(queue)].kind = "dir"
    /\ LET size == fs[Head(queue)].len
       IN  /\ total_size' = WrappingAdd(total_size, size)
           /\ data' = Append(data, PathData(size, NameOf(Head(queue)), DirIcon))
    /\ queue' = Tail(queue)
    /\ UNCHANGED << fs, pc, ret, error, stdout, exit_code >>
    /\ UNCHANGED fmtVars

\* if file.metadata()?.is_dir() { ... }
VisitDir ==
    /\ pc = "iter"
    /\ queue # << >>
    /\ fs[Head(queue)].fault \notin {"entry", "stat"}
    /\ fs[Head(queue)].kind = "dir"
    /\ LET size == get_size_of_directory(Head(queue))
       IN  /\ total_size' = WrappingAdd(total_size, size)
           /\ data' = Append(data, PathData(size, NameOf(Head(queue)), DirIcon))
    /\ queue' = Tail(queue)
    /\ UNCHANGED << fs, pc, ret, error, stdout, exit_code >>
    /\ UNCHANGED fmtVars

\* Mutant of VisitFile: `total_size += size` left out.
VisitFileNotTotalled ==
    /\ pc = "iter"
    /\ queue # << >>
    /\ fs[Head(queue)].fault \notin {"entry", "stat"}
    /\ fs[Head(queue)].kind = "file"
    /\ data' = Append(data, PathData(fs[Head(queue)].len, NameOf(Head(queue)), FileIcon))
    /\ queue' = Tail(queue)
    /\ UNCHANGED << fs, pc, total_size, ret, error, stdout, exit_code >>
    /\ UNCHANGED fmtVars

\* else if file.metadata()?.is_file() { ... }
VisitFile ==
    /\ pc = "iter"
    /\ queue # << >>
    /\ fs[Head(queue)].fault \notin {"entry", "stat"}
    /\ fs[Head(queue)].kind = "file"
    /\ LET size == fs[Head(queue)].len
       IN  /\ total_size' = WrappingAdd(total_size, size)
           /\ data' = Append(data, PathData(size, NameOf(Head(queue)), FileIcon))
    /\ queue' = Tail(queue)
    /\ UNCHANGED << fs, pc, ret, error, stdout, exit_code >>
    /\ UNCHANGED fmtVars

\* Neither branch taken: the entry is passed over.
VisitOther ==
    /\ pc = "iter"
    /\ queue # << >>
    /\ fs[Head(queue)].fault \notin {"entry", "stat"}
    /\ fs[Head(queue)].kind \notin {"dir", "file"}
    /\ queue' = Tail(queue)
    /\ UNCHANGED << fs, pc, data, total_size, ret, error, stdout, exit_code >>
    /\ UNCHANGED fmtVars

\* Mutant of PushTotal: the Total entry put at the front of the vector.
PushTotalFirst ==
    /\ pc = "iter"
    /\ queue = << >>
    /\ data' = << PathData(total_size, TotalName, TotalIcon) >> \o data
    /\ ret' = "Ok"
    /\ pc' = "returned"
    /\ UNCHANGED << fs, queue, total_size, error, stdout, exit_code >>
    /\ UNCHANGED fmtVars

\* data.push(PathData { size: total_size, name: "Total", icon: "" }); Ok(data)
PushTotal ==
    /\ pc = "iter"
    /\ queue = << >>
    /\ data' = Append(data, PathData(total_size, TotalName, TotalIcon))
    /\ ret' = "Ok"
    /\ pc' = "returned"
    /\ UNCHANGED << fs, queue, total_size, error, stdout, exit_code >>
    /\ UNCHANGED fmtVars

(* -------------------------------- main --------------------------------- *)

\* get_data_from_directory(cwd)? on Err: main returns it, the runtime reports
\* it on stderr and the process exits with status 1.
MainPropagate ==
    /\ pc = "returned"
    /\ ret = "Err"
    /\ exit_code' = 1
    /\ pc' = "exit"
    /\ UNCHANGED << fs, queue, data, total_size, ret, error, stdout >>
    /\ UNCHANGED fmtVars

\* Mutant of InsertByKey: e put before the elements of equal key (unstable).
RECURSIVE InsertByKeyUnstable(_, _)
InsertByKeyUnstable(sorted, e) ==
    IF sorted = << >> THEN << e >>
    ELSE IF Leq64(e.size, sorted[Len(sorted)].size)
    THEN Append(InsertByKeyUnstable(SubSeq(sorted, 1, Len(sorted) - 1), e),
                sorted[Len(sorted)])
    ELSE Append(sorted, e)

\* sorted with e put after every element whose key is not greater than e's.
RECURSIVE InsertByKey(_, _)
InsertByKey(sorted, e) ==
    IF sorted = << >> THEN << e >>
    ELSE IF Less64(e.size, sorted[Len(sorted)].size)
    THEN Append(InsertByKey(SubSeq(sorted, 1, Len(sorted) - 1), e),
                sorted[Len(sorted)])
    ELSE Append(sorted, e)

\* data.sort_by_key(|k| k.size): a stable sort.
RECURSIVE SortByKey(_)
SortByKey(seq) ==
    IF seq = << >> THEN << >>
    ELSE InsertByKey(SortByKey(SubSeq(seq, 1, Len(seq) - 1)), seq[Len(seq)])

\* print_data, first half: data.sort_by_key(|k| k.size)
SortData ==
    /\ pc = "returned"
    /\ ret = "Ok"
    /\ data' = SortByKey(data)
    /\ pc' = "sorted"
    /\ UNCHANGED << fs, queue, total_size, ret, error, stdout, exit_code >>
    /\ UNCHANGED fmtVars

\* One row of three cells for an entry.
Row(d) == << d.icon, d.name, get_human_readable_size(d.size) >>

\* print_data, second half: the rows go to the grid and the grid to stdout;
\* main returns Ok(()).
PrintGrid ==
    /\ pc = "sorted"
    /\ stdout' = [i \in 1..Len(data) |-> Row(data[i])]
    /\ exit_code' = 0
    /\ pc' = "exit"
    /\ UNCHANGED << fs, queue, data, total_size, ret, error >>
    /\ UNCHANGED fmtVars

(* --------------------------- specifications ---------------------------- *)

Init ==
    /\ \E n \in 0..MaxNodes :
         \E kind \in [1..n -> Kinds] :
           \E parent \in Parents(n, kind) :
             \E len \in {l \in Lens(n, kind) : FitsU64(n, kind, l)} :
               \E fault \in FaultMaps(n, kind, MaxFaults) :
                 fs = [i \in 0..n |->
                         IF i = 0
                         THEN [parent |-> 0, kind |-> "dir", len |-> DirLen,
                               fault |-> fault[0]]
                         ELSE [parent |-> parent[i], kind |-> kind[i],
                               len |-> len[i], fault |-> fault[i]]]
    /\ pc = "main"
    /\ queue = << >>
    /\ data = << >>
    /\ total_size = Zero64
    /\ ret = "none"
    /\ error = "none"
    /\ stdout = << >>
    /\ exit_code = -1
    /\ FmtIdle

Next ==
    \/ CurrentDirOk
    \/ CurrentDirErr
    \/ ReadDirOk
    \/ ReadDirErr
    \/ SkipEntryErr
    \/ MetadataErr
    \/ VisitDir
    \/ VisitFile
    \/ VisitOther
    \/ PushTotal
    \/ MainPropagate
    \/ SortData
    \/ PrintGrid

Spec == Init /\ [][Next]_vars

InitFmt ==
    /\ f_pc = "enter"
    /\ f_size \in SampleSizes
    /\ f_out = [mant |-> Zero64, exp |-> 0]
    /\ f_iter = 0
    /\ f_suffix = ""
    /\ f_text = ""
    /\ fs = [i \in {0} |-> [parent |-> 0, kind |-> "dir", len |-> DirLen,
                            fault |-> "none"]]
    /\ MainIdle

NextFmt ==
    \/ FmtEnter
    \/ FmtLoop
    \/ FmtReturn

SpecFmt == InitFmt /\ [][NextFmt]_vars

(* ------------------------- reference notions --------------------------- *)

TopLevel == Children(0)

\* The immediate children the pass classifies as a directory or a file.
Classified ==
    {c \in TopLevel : fs[c].fault \notin {"entry", "stat"} /\ fs[c].kind \in {"dir", "file"}}

\* n can be reached from d: n itself is listed, and every directory from
\* its parent up to d can be opened.
RECURSIVE Reachable(_, _)
Reachable(d, n) ==
    IF n = d THEN TRUE
    ELSE IF n = 0 THEN FALSE
    ELSE /\ fs[n].fault # "entry"
         /\ fs[fs[n].parent].fault # "open"
         /\ Reachable(d, fs[n].parent)

\* The regular files transitively contained in d that can be read and stat'ed.
ContainedFiles(d) ==
    {n \in Nodes \ {d} : fs[n].kind = "file" /\ fs[n].fault = "none" /\ Reachable(d, n)}

\* Exact sum of the lengths of a set of nodes: << sum, overflowed >>.
LenSum(S) ==
    LET order == Ascending(S)
    IN  SumChecked([j \in 1..Len(order) |-> fs[order[j]].len], 1)

\* Exact sum of the sizes of the entries of data other than the t-th.
SizeSumExcept(t) ==
    SumChecked([j \in 1..Len(data) |-> IF j = t THEN Zero64 ELSE data[j].size], 1)

TotalRows == {i \in 1..Len(data) : data[i].name = TotalName /\ data[i].icon = TotalIcon}

RegularRows == {i \in 1..Len(data) : data[i].icon # TotalIcon}

\* The node a regular entry was made from.
NodeOf(e) == CHOOSE n \in Nodes \ {0} : NameOf(n) = e.name

\* Position of an entry in the pass: children in iterator order, Total last.
Encounter(e) == IF e.icon = TotalIcon THEN Cardinality(Nodes) ELSE NodeOf(e)

\* k+1 for the smallest k with n < 1024^(k+1).
ExactUnit(n) == IF TopDigit(n, Limbs) = 0 THEN 1 ELSE TopDigit(n, Limbs)

\* n / 1024^k to three decimals with the unit U_k, k as in ExactUnit.
ExactText(n) ==
    FormatOut([mant |-> n, exp |-> ExactUnit(n) - 1], Units[ExactUnit(n)])

\* The u64 1024^k, k in 0..6.
PowerOf1024(k) == [j \in 1..Limbs |-> IF j = k + 1 THEN 1 ELSE 0]

(* ------------------------------- claims -------------------------------- *)

\* C1: a report that get_data_from_directory returns holds exactly one Total
\* entry (name "Total", empty marker), and its size is the sum of the sizes of
\* all the other entries of the report.
C1_TotalIsSumOfOthers ==
    ret = "Ok" =>
        /\ Cardinality(TotalRows) = 1
        /\ \A t \in TotalRows :
             LET others == SizeSumExcept(t)
             IN  ~others[2] /\ data[t].size = others[1]

\* A report of two children, one of them a non-empty child that is itself
\* named "Total".
C1_Witness ==
    /\ ret = "Ok"
    /\ Len(data) = 3
    /\ \E i \in RegularRows : data[i].name = TotalName /\ data[i].size # Zero64
    /\ \E i \in RegularRows : data[i].name # TotalName /\ data[i].size # Zero64

\* C2 (as claimed): an immediate child whose metadata read fails is skipped;
\* the pass goes on and get_data_from_directory still returns a report, which
\* has no entry for that child.
C2_UnstatableChildSkipped ==
    \A c \in TopLevel :
        fs[c].fault = "stat" =>
            /\ ret # "Err"
            /\ ret = "Ok" => \A i \in RegularRows : data[i].name # NameOf(c)

\* C3 (as claimed): get_data_from_directory returns an error exactly when the
\* working directory cannot be opened; then nothing is printed and the exit
\* status is non-zero.
C3_ErrIffOpenFails ==
    /\ ret # "none" => (ret = "Err" <=> fs[0].fault = "open")
    /\ (pc = "exit" /\ ret = "Err") => (stdout = << >> /\ exit_code = 1)

\* C4: what is rendered is in ascending order of size, entries of equal size
\* in the order the pass met them, and Total before no larger entry.
C4_SortedStable ==
    (pc \in {"sorted", "exit"} /\ ret = "Ok") =>
        /\ \A i, j \in 1..Len(data) :
             i < j =>
                /\ Leq64(data[i].size, data[j].size)
                /\ data[i].size = data[j].size =>
                      Encounter(data[i]) < Encounter(data[j])
        /\ \A t \in TotalRows : \A j \in (t + 1)..Len(data) :
             ~Less64(data[t].size, data[j].size)
        /\ pc = "exit" =>
             /\ Len(stdout) = Len(data)
             /\ \A i \in 1..Len(data) : stdout[i] = Row(data[i])

\* Three files printed, the first two of equal size and one of them met after
\* the larger third.
C4_Witness ==
    /\ pc = "exit"
    /\ ret = "Ok"
    /\ Len(data) = 4
    /\ data[1].size = data[2].size
    /\ Less64(data[2].size, data[3].size)
    /\ Encounter(data[3]) < Encounter(data[2])

\* C5: the last row rendered is the Total entry with the empty marker.
C5_TotalLast ==
    (pc \in {"sorted", "exit"} /\ ret = "Ok") =>
        /\ data # << >>
        /\ data[Len(data)].name = TotalName
        /\ data[Len(data)].icon = TotalIcon
        /\ pc = "exit" =>
             /\ stdout # << >>
             /\ stdout[Len(stdout)][1] = TotalIcon
             /\ stdout[Len(stdout)][2] = TotalName

\* Printed reports in which every child is as large as the total: a single
\* non-empty child, here with a second child of size 0 ahead of it.
C5_Witness ==
    /\ pc = "exit"
    /\ ret = "Ok"
    /\ Len(data) = 3
    /\ data[1].size = Zero64
    /\ data[2].size # Zero64
    /\ data[2].size = data[3].size

\* C6: get_size_of_directory(D) is the sum of the lengths of the regular files
\* below D that can be reached and stat'ed; directories, symlinks, special
\* files and unreadable descendants add nothing.  It is checked for every
\* directory of the file system that can be handed to it (once, as main
\* starts: the file system is never written), and on the sizes the pass
\* recorded.
C6_AggregateIsFileSum ==
    /\ pc = "main" =>
         \A d \in Nodes :
             (fs[d].kind = "dir" /\ fs[d].fault \notin {"entry", "stat"}) =>
                 /\ ~LenSum(ContainedFiles(d))[2]
                 /\ get_size_of_directory(d) = LenSum(ContainedFiles(d))[1]
    /\ \A i \in RegularRows :
         data[i].icon = DirIcon =>
             data[i].size = LenSum(ContainedFiles(NodeOf(data[i])))[1]

\* A directory entry of non-zero size whose directory also holds an entry
\* that cannot be read.
C6_Witness ==
    \E i \in RegularRows :
        /\ data[i].icon = DirIcon
        /\ data[i].size # Zero64
        /\ \E n \in Nodes \ {0} :
             fs[n].parent = NodeOf(data[i]) /\ fs[n].fault # "none"

\* C8: the report has one regular entry per classified immediate child and
\* no other: a directory's with its aggregate, a file's with its length; it
\* has (classified children) + 1 entries, and only Total with size 0 for an
\* empty directory.
C8_OneEntryPerClassifiedChild ==
    ret = "Ok" =>
        /\ Len(data) = Cardinality(Classified) + 1
        /\ \A c \in Classified :
             /\ Cardinality({i \in RegularRows : data[i].name = NameOf(c)}) = 1
             /\ \A i \in RegularRows :
                  data[i].name = NameOf(c) =>
                      data[i].size =
                          IF fs[c].kind = "dir"
                          THEN LenSum(ContainedFiles(c))[1]
                          ELSE fs[c].len
        /\ \A i \in RegularRows : NodeOf(data[i]) \in Classified
        /\ TopLevel = {} => data = << PathData(Zero64, TotalName, TotalIcon) >>

\* A report over a non-empty directory, a file and a symlink.
C8_Witness ==
    /\ ret = "Ok"
    /\ Cardinality(TopLevel) = 3
    /\ Len(data) = 3
    /\ \E c \in TopLevel : fs[c].kind = "other" /\ fs[c].fault = "none"
    /\ \E i \in RegularRows : data[i].icon = DirIcon
    /\ \E i \in RegularRows : data[i].icon = FileIcon /\ data[i].size # Zero64

\* The stepwise run and the operator print_data uses return the same text.
FmtStepsAgree == f_pc = "done" => f_text = get_human_readable_size(f_size)

\* C7 (as claimed): the unit is U_k for the smallest k with n < 1024^(k+1) and
\* the text is n / 1024^k to three decimals; n < 1024 prints as "n.000 B" and
\* n = 1024^k as "1.000 U_k".
C7_UnitByExactSize ==
    f_pc = "done" =>
        /\ f_suffix = Units[ExactUnit(f_size)]
        /\ f_text = ExactText(f_size)
        /\ TopDigit(f_size, Limbs) <= 1 =>
              f_text = ToString(f_size[1]) \o ".000 B"
        /\ \A k \in 0..(Limbs - 1) :
              f_size = PowerOf1024(k) => f_text = "1.000 " \o Units[k + 1]

\* C7 (amended): the rule of C7 holds of the f64 nearest to n, which is n
\* itself when n has at most 53 significant bits; the sizes from 2^60 - 64 to
\* 2^60 - 1 are converted to 2^60 and print as "1.000 EiB".
C7_UnitByConvertedSize ==
    f_pc = "done" =>
        /\ f_suffix = Units[ExactUnit(AsF64(f_size))]
        /\ f_text = ExactText(AsF64(f_size))
        /\ BitLen64(f_size) <= F64Bits =>
              (f_suffix = Units[ExactUnit(f_size)] /\ f_text = ExactText(f_size))
        /\ TopDigit(f_size, Limbs) <= 1 =>
              f_text = ToString(f_size[1]) \o ".000 B"
        /\ \A k \in 0..(Limbs - 1) :
              f_size = PowerOf1024(k) => f_text = "1.000 " \o Units[k + 1]
        /\ (f_size[1] >= 960 /\ f_size[Limbs] = 0
            /\ \A j \in 2..(Limbs - 1) : f_size[j] = 1023) =>
              f_text = "1.000 EiB"

\* 2^60 - 1 formatted.
C7_Witness ==
    /\ f_pc = "done"
    /\ f_size = << 1023, 1023, 1023, 1023, 1023, 1023, 0 >>
    /\ f_text = "1.000 EiB"

\* C9: the loop divides at most six times and ends on one of B .. EiB with a
\* value below 1024; ZiB and YiB are never produced for a u64.
C9_AtMostEiB ==
    /\ f_pc \in {"loop", "format", "done"} => f_iter - 1 <= 6
    /\ f_pc \in {"format", "done"} =>
          /\ f_suffix \in {"B", "KiB", "MiB", "GiB", "TiB", "PiB", "EiB"}
          /\ f_suffix = Units[f_iter]
          /\ f_out.exp = f_iter - 1
          /\ \A j \in (f_out.exp + 2)..Limbs : f_out.mant[j] = 0
          /\ Digit(f_out.mant, f_out.exp + 1) < 1024

\* 2^64 - 1 formatted: six divisions, "16.000 EiB".
C9_Witness ==
    /\ f_pc = "done"
    /\ f_size = << 1023, 1023, 1023, 1023, 1023, 1023, 15 >>
    /\ f_iter = 7
    /\ f_text = "16.000 EiB"

\* C10 (as claimed): the number printed, rounded to three decimals, is
\* strictly below 1024.000.
C10_PrintedBelow1024 ==
    f_pc = "done" => Fixed3(f_out) < 1024000

\* C10 (amended): the value is below 1024 before rounding and the number
\* printed is at most 1024.000; it is below 1024.000 for the units B and KiB,
\* and 1024^3 - 1 prints as "1024.000 MiB".
C10_PrintedAtMost1024 ==
    f_pc = "done" =>
        /\ \A j \in (f_out.exp + 2)..Limbs : f_out.mant[j] = 0
        /\ Fixed3(f_out) <= 1024000
        /\ f_suffix \in {"B", "KiB"} => Fixed3(f_out) < 1024000
        /\ Fixed3(f_out) = 1024000 <=> f_text = "1024.000 " \o f_suffix
        /\ f_size = << 1023, 1023, 1023, 0, 0, 0, 0 >> => f_text = "1024.000 MiB"

\* 1024^3 - 1 formatted.
C10_Witness ==
    /\ f_pc = "done"
    /\ f_size = << 1023, 1023, 1023, 0, 0, 0, 0 >>
    /\ f_text = "1024.000 MiB"

====
